---- MODULE Spec2Model ----
(***************************************************************************)
(* Business Cat Racing: the kart's arcade vehicle dynamics (Kart.ts with   *)
(* the rigid-body step of PhysicsWorld) and the camera tracking system     *)
(* (CameraManager).                                                         *)
(*                                                                         *)
(* Numbers are fixed point.  Kart velocities are integers in units of      *)
(* 1/VScale m/s, forces are whole newtons, angles and factors are in       *)
(* thousandths.  Camera times are whole clock units, progress and          *)
(* intensity are in thousandths, field of view in thousandths of a degree, *)
(* positions in units of 1/PScale.  NaN is a reserved integer.             *)
(***************************************************************************)
EXTENDS Integers, Sequences, FiniteSets, TLC

VARIABLES
    \* ---- Kart (src/src/entities/Kart.ts) ----
    controls,        \* Kart.controls: accelerate, brake, steering
    bodyVel,         \* physicsBody.velocity, horizontal part, in the body frame
    bodyForce,       \* physicsBody.force accumulated by applyForce since the last step
    bodyTorque,      \* physicsBody.torque about y accumulated by applyTorque since the last step
    steerValue,      \* Kart.steerValue, thousandths of a radian
    kstate,          \* Kart.state: the fields updatePhysics/updateState write; nested objects by id
    objects,         \* the nested objects of Kart.state and of its copies, by object id
    snapshot,        \* the value the caller holds from its last Kart.getState() call
    group,           \* Kart.group: the number of visual components it holds
    kartTicks,       \* Kart.update calls made through the kart's own API so far
    \* ---- CameraManager (src/unnamed/part_009) and its environment ----
    now,             \* performance.now(), in clock units
    cam,             \* the CameraManager's fields: config, state, transitionData, bounds, camera
    nested,          \* the heap of nested config objects (smoothing, offset), by object id
    target,          \* the tracked object: position and yaw of target.object3D, and the target's velocity
    scene,           \* whether the scene holds objects other than the target
    emitted,         \* the events emitted by the last step, in order
    controller,      \* the CameraController's fields: config.mode, the target and current vectors
    eventListeners,  \* CameraManager.eventListeners, the array of the modeChanged event
    delivered,       \* the listeners called by the last camera operation, in order
    hist,            \* bookkeeping for the claims: per-transition counts, shake accounting
    \* ---- InputManager (src/src/game/InputManager.ts) ----
    inputState,      \* InputManager.inputState: for each action, whether it is active
    pressedKeys,     \* InputManager.pressedKeys
    currentContext,  \* InputManager.currentContext
    isEnabled,       \* InputManager.isEnabled
    inputLog         \* bookkeeping for the claims: the last InputManager call

kartVars == <<controls, bodyVel, bodyForce, bodyTorque, steerValue, kstate, objects, snapshot, group, kartTicks>>

camVars == <<now, cam, nested, target, scene, emitted, controller, hist>>

inputVars == <<inputState, pressedKeys, currentContext, isEnabled, inputLog>>

eventVars == <<eventListeners, delivered>>

vars == <<controls, bodyVel, bodyForce, bodyTorque, steerValue, kstate, objects, snapshot, group, kartTicks,
          now, cam, nested, target, scene, emitted, controller, hist,
          inputState, pressedKeys, currentContext, isEnabled, inputLog,
          eventListeners, delivered>>

-----------------------------------------------------------------------------
(* Bounds of the model *)

VScale == 5                \* velocity units per m/s
MaxKartTicks == 4          \* Kart.update calls explored through the kart's own API
MaxHeldTicks == 35         \* frames of the run that holds the accelerator from rest
MaxListeners == 2          \* callbacks that register for an event
MaxTime == 4               \* last value of the clock
MaxTransitions == 2        \* transitionTo calls explored
MaxShakes == 2              \* CameraManager.startShake calls explored
MaxUpdates == 3            \* update calls explored, of CameraManager and CameraController together
PScale == 10               \* position units per world unit
RaySteps == 6              \* places along the ray where a raycast hit may lie

-----------------------------------------------------------------------------
(* Arithmetic helpers *)

Abs(n) == IF n < 0 THEN -n ELSE n

Min(a, b) == IF a < b THEN a ELSE b

Max(a, b) == IF a > b THEN a ELSE b

\* a / b rounded to the nearest integer, halves away from zero (b > 0)
DivRound(a, b) == IF a >= 0 THEN (2 * a + b) \div (2 * b) ELSE -((2 * (-a) + b) \div (2 * b))

\* a / b truncated toward zero (b > 0)
DivTrunc(a, b) == IF a >= 0 THEN a \div b ELSE -((-a) \div b)

RECURSIVE SqrtSearch(_, _, _)
SqrtSearch(n, lo, hi) ==
    IF lo >= hi THEN lo
    ELSE LET mid == (lo + hi + 1) \div 2
         IN IF mid * mid <= n THEN SqrtSearch(n, mid, hi) ELSE SqrtSearch(n, lo, mid - 1)

\* floor of the square root
ISqrt(n) == SqrtSearch(n, 0, Min(n, 46340))

-----------------------------------------------------------------------------
(* Kart: constants of updatePhysics and of the kart configuration *)

MAX_SPEED == 18
QUICK_ACCEL_SPEED == 8
INITIAL_ACCEL_FORCE == 15000
SUSTAINED_ACCEL_FORCE == 8000
TOP_SPEED_FORCE == 1000
BRAKE_FORCE == 12000
STEERING_FORCE == 8000
TORQUE_STRENGTH == 150
DRAG_FACTOR == 8
mass == 180
maxSteerAngle == 524          \* Math.PI / 6 in thousandths of a radian
STEER_DEADZONE == 10          \* 0.01 rad
DRIFT_STEER_THRESHOLD == 300  \* 0.3 rad
DRIFT_SPEED_THRESHOLD == 5
stepsPerSecond == 60          \* 1 / fixedTimeStep
MinDistanceDivisor == 2       \* minDistanceFromSurface = 0.5 = 1 / 2
CollisionConfigEnabled == TRUE

\* Values Game.updateKartControls passes to setControls
GameAccelerate == {0, 1}
GameBrake == {0, 1}
GameSteering == {-1, 0, 1}

\* const currentSpeed = Math.sqrt(velocity.x ** 2 + velocity.z ** 2), read once at
\* the top of updatePhysics: its square, and its value in velocity units rounded
\* down (units) and up (ceil)
CurrentSpeed(v) ==
    LET sq == v.x * v.x + v.z * v.z
        r == ISqrt(sq)
    IN [sq |-> sq, units |-> r, ceil |-> IF r * r = sq THEN r ELSE r + 1]

ZeroVec2 == [x |-> 0, z |-> 0]

\* Kart.initializeControls
InitControls == [accelerate |-> 0, brake |-> 0, steering |-> 0]

\* Kart.initializeState
\* velocity and angularVelocity hold the ids of the nested objects (position and
\* rotation are objects that updateState replaces exactly as it does velocity)
InitKState == [speed |-> 0, steering |-> 0, isDrifting |-> FALSE, driftLevel |-> 0,
               velocity |-> 1, angularVelocity |-> 0]

\* The nested objects initializeState creates
InitObjects == (0 :> [x |-> 0, z |-> 0]) @@ (1 :> [x |-> 0, z |-> 0])

\* The caller before its first getState call
NoSnapshot == [taken |-> FALSE, state |-> InitKState]

\* Ids for the nested objects alive at one time: angularVelocity, the state's
\* velocity and the velocity a snapshot holds
ObjectIds == 0..2


-----------------------------------------------------------------------------
(* Kart.updatePhysics, piece by piece.  The body frame is the kart's own:    *)
(* forward is -z (CANNON.Vec3(0,0,-1) through the body quaternion), the      *)
(* steer direction is -x.  resetKart sets the quaternion to identity; the    *)
(* yaw the engine integrates from the steering torque is not tracked; the    *)
(* torque is in thousandths of a newton metre.                               *)

\* accelerationForce of the staged curve, in newtons, for a speed in velocity units
AccelerationForce(su) ==
    IF su < QUICK_ACCEL_SPEED * VScale
    THEN INITIAL_ACCEL_FORCE - (INITIAL_ACCEL_FORCE * 4 * su) \div (10 * QUICK_ACCEL_SPEED * VScale)
    ELSE IF su < MAX_SPEED * VScale
    THEN SUSTAINED_ACCEL_FORCE
         - (SUSTAINED_ACCEL_FORCE * 8 * (su - QUICK_ACCEL_SPEED * VScale))
           \div (10 * (MAX_SPEED - QUICK_ACCEL_SPEED) * VScale)
    ELSE TOP_SPEED_FORCE

\* force applied by the acceleration system
AccelForce(c, sp) ==
    IF c.accelerate > 0
    THEN [x |-> 0, z |-> -(AccelerationForce(sp.units) * c.accelerate)]
    ELSE ZeroVec2

\* force applied by the braking system: velocity scaled by -BRAKE_FORCE * brake
BrakeForceVec(c, v) ==
    IF c.brake > 0
    THEN [x |-> DivRound(-(BRAKE_FORCE * c.brake) * v.x, VScale),
          z |-> DivRound(-(BRAKE_FORCE * c.brake) * v.z, VScale)]
    ELSE ZeroVec2

\* this.steerValue = controls.steering * maxSteerAngle
SteerValue(c) == c.steering * maxSteerAngle

\* speedFactor = max(0.3, 1 - (currentSpeed / MAX_SPEED) * 0.7), in thousandths
SpeedFactor(su) == Max(300, 1000 - (700 * su) \div (MAX_SPEED * VScale))

\* magnitude of the lateral force: STEERING_FORCE * steerValue * speedFactor * currentSpeed
SteerForceMagnitude(sv, su) ==
    DivRound(DivRound((STEERING_FORCE \div 1000) * sv * SpeedFactor(su), 1000) * su, VScale)

\* steering torque whose strength grows with the speed
SteerTorqueBySpeed(sv, su) == DivRound(sv * TORQUE_STRENGTH * su, VScale)

\* steering torque about y: steerValue * (150 * speedFactor)
SteerTorqueMagnitude(sv, su) == DivRound(sv * TORQUE_STRENGTH * SpeedFactor(su), 1000)

\* torque applied by the steering system
SteerTorque(sv, su) == IF Abs(sv) > STEER_DEADZONE THEN SteerTorqueMagnitude(sv, su) ELSE 0

\* lateral steering force, along the steer direction -x
SteerForce(sv, sp) ==
    IF Abs(sv) > STEER_DEADZONE
    THEN [x |-> -SteerForceMagnitude(sv, sp.units), z |-> 0]
    ELSE ZeroVec2

\* drag: horizontal velocity scaled by -currentSpeed * 8
DragForce(v, sp) ==
    [x |-> DivRound(-(DRAG_FACTOR * sp.units) * v.x, VScale * VScale),
     z |-> DivRound(-(DRAG_FACTOR * sp.units) * v.z, VScale * VScale)]

\* drift detection that computes the level whether or not the kart drifts
DriftDetectionStaleLevel(sv, sp) ==
    [isDrifting |-> Abs(sv) > DRIFT_STEER_THRESHOLD
                    /\ sp.sq > (DRIFT_SPEED_THRESHOLD * VScale) * (DRIFT_SPEED_THRESHOLD * VScale),
     driftLevel |-> Min(1000, (Abs(sv) * sp.units) \div (MAX_SPEED * VScale))]

\* drift detection that looks at the steering alone
DriftDetectionSteerOnly(sv, sp) ==
    IF Abs(sv) > DRIFT_STEER_THRESHOLD
    THEN [isDrifting |-> TRUE,
          driftLevel |-> Min(1000, (Abs(sv) * sp.units) \div (MAX_SPEED * VScale))]
    ELSE [isDrifting |-> FALSE, driftLevel |-> 0]

\* drift detection: the pair (isDrifting, driftLevel) written every tick
DriftDetection(sv, sp) ==
    IF Abs(sv) > DRIFT_STEER_THRESHOLD
       /\ sp.sq > (DRIFT_SPEED_THRESHOLD * VScale) * (DRIFT_SPEED_THRESHOLD * VScale)
    THEN [isDrifting |-> TRUE,
          driftLevel |-> Min(1000, (Abs(sv) * sp.units) \div (MAX_SPEED * VScale))]
    ELSE [isDrifting |-> FALSE, driftLevel |-> 0]

\* speed limiting: when the speed read at the top of updatePhysics exceeds
\* MAX_SPEED, rescale the velocity by MAX_SPEED / currentSpeed
SpeedLimit(v, sp) ==
    IF sp.sq > (MAX_SPEED * VScale) * (MAX_SPEED * VScale)
    THEN [x |-> DivTrunc(v.x * MAX_SPEED * VScale, sp.ceil),
          z |-> DivTrunc(v.z * MAX_SPEED * VScale, sp.ceil)]
    ELSE v

\* sum of the forces one updatePhysics call applies to the body
AppliedForce(c, v, sp) ==
    LET a == AccelForce(c, sp)
        b == BrakeForceVec(c, v)
        s == SteerForce(SteerValue(c), sp)
        d == DragForce(v, sp)
    IN [x |-> a.x + b.x + s.x + d.x, z |-> a.z + b.z + s.z + d.z]

\* The children of Kart.group after construction: the kart body, four wheel
\* assemblies and the cat
GroupChildren == 6

\* The kart as one record, so that the stages of a frame compose
KartRec == [controls |-> controls, vel |-> bodyVel, force |-> bodyForce, torque |-> bodyTorque,
            steerValue |-> steerValue, kstate |-> kstate, objects |-> objects, snapshot |-> snapshot]

\* The nested objects a state value refers to
Referenced(st) == {st.velocity, st.angularVelocity}

\* The objects still referenced by the kart's state st or by the caller's snapshot
Live(st, snap) == Referenced(st) \cup (IF snap.taken THEN Referenced(snap.state) ELSE {})

\* The id of an object literal just created: one no live object has
NewObject(live) == CHOOSE id \in ObjectIds \ live : \A other \in ObjectIds \ live : id <= other

\* Kart.setControls: Object.assign(this.controls, controls), values taken as given
SetControlsOp(k, c) == [k EXCEPT !.controls = c]

\* Kart.updatePhysics: forces from the speed read at the top, drift detection,
\* then the speed limit on the velocity itself
UpdatePhysics(k) ==
    LET sp == CurrentSpeed(k.vel)
        sv == SteerValue(k.controls)
        f == AppliedForce(k.controls, k.vel, sp)
        d == DriftDetection(sv, sp)
    IN [k EXCEPT !.force = [x |-> k.force.x + f.x, z |-> k.force.z + f.z],
                 !.torque = @ + SteerTorque(sv, sp.units),
                 !.steerValue = sv,
                 !.kstate = [k.kstate EXCEPT !.isDrifting = d.isDrifting, !.driftLevel = d.driftLevel],
                 !.vel = SpeedLimit(k.vel, sp)]

\* Kart.updateState: the snapshot fields copied from the body and from steerValue
\* this.state.velocity = {x: ..., y: ..., z: ...} is a new object, and the one it
\* replaces lives on only if a snapshot holds it; nothing writes angularVelocity
UpdateState(k) ==
    LET kept == {k.kstate.angularVelocity} \cup
                (IF k.snapshot.taken THEN Referenced(k.snapshot.state) ELSE {})
        id == NewObject(kept)
    IN [k EXCEPT !.kstate = [k.kstate EXCEPT !.speed = CurrentSpeed(k.vel).units, !.steering = k.steerValue,
                                             !.velocity = id],
                 !.objects = [i \in kept \cup {id} |-> IF i = id THEN k.vel ELSE k.objects[i]]]

\* Kart.update: updatePhysics then updateState. deltaTime (ms) is passed on to
\* updatePhysics, which never reads it (its parameter is _deltaTime), and to the
\* wheel rotation and particle effects, which hold no state modelled here
KartUpdateOp(k, deltaTime) == UpdateState(UpdatePhysics(k))

\* PhysicsWorld.step: one fixed step of the rigid-body engine, v += F / m * dt,
\* after which the engine clears the accumulated force
PhysicsStepOp(k) ==
    [k EXCEPT !.vel = [x |-> k.vel.x + DivRound(k.force.x * VScale, mass * stepsPerSecond),
                       z |-> k.vel.z + DivRound(k.force.z * VScale, mass * stepsPerSecond)],
              !.force = ZeroVec2,
              !.torque = 0]

\* Kart.setPosition: teleport, zero the body's linear and angular velocity
SetPositionOp(k) == [k EXCEPT !.vel = ZeroVec2]

\* Kart.resetKart: setPosition, identity quaternion, initializeControls
ResetKartOp(k) == [SetPositionOp(k) EXCEPT !.controls = InitControls]

Store(k) ==
    /\ controls' = k.controls
    /\ bodyVel' = k.vel
    /\ bodyForce' = k.force
    /\ bodyTorque' = k.torque
    /\ steerValue' = k.steerValue
    /\ kstate' = k.kstate
    /\ objects' = k.objects
    /\ snapshot' = k.snapshot

\* Kart.getState: { ...this.state }, a copy of the top-level fields, so that the
\* copy's velocity and angularVelocity are the state's own objects
GetStateOp(k) ==
    LET snap == [taken |-> TRUE, state |-> k.kstate]
    IN [k EXCEPT !.snapshot = snap,
                 !.objects = [i \in Live(k.kstate, snap) |-> k.objects[i]]]

\* What the caller may assign to a field of the value getState returned
CallerWrites == { [x |-> 7 * VScale, z |-> 0] }

\* The caller assigns to the snapshot: to a number of the copy itself, or to a
\* coordinate of one of its nested objects
WriteSnapshotOp(k, field, w) ==
    IF field = "speed"
    THEN [k EXCEPT !.snapshot.state.speed = w.x]
    ELSE [k EXCEPT !.objects[k.snapshot.state[field]] = w]

-----------------------------------------------------------------------------
(* Kart actions *)

\* Controls the kart's API is driven with: the rest position, in-range
\* driving inputs, and values outside the documented ranges
ApiControls ==
    { InitControls,
      [accelerate |-> 1, brake |-> 0, steering |-> 0],
      [accelerate |-> 1, brake |-> 0, steering |-> 1],
      [accelerate |-> 0, brake |-> 1, steering |-> -1],
      [accelerate |-> 3, brake |-> 0, steering |-> 7] }

\* deltaTime values update is called with, in ms: negative, zero, a 60 Hz frame
KartDeltaTimes == {-16, 0, 16}

SetControls ==
    /\ \E c \in ApiControls : Store(SetControlsOp(KartRec, c))
    /\ UNCHANGED <<group, kartTicks, camVars, inputVars, eventVars>>

KartUpdate ==
    /\ kartTicks < MaxKartTicks
    /\ \E deltaTime \in KartDeltaTimes : Store(KartUpdateOp(KartRec, deltaTime))
    /\ kartTicks' = kartTicks + 1
    /\ UNCHANGED <<group, camVars, inputVars, eventVars>>

PhysicsStep ==
    /\ Store(PhysicsStepOp(KartRec))
    /\ UNCHANGED <<group, kartTicks, camVars, inputVars, eventVars>>

KartGetState ==
    /\ Store(GetStateOp(KartRec))
    /\ UNCHANGED <<group, kartTicks, camVars, inputVars, eventVars>>

WriteSnapshot ==
    /\ snapshot.taken
    /\ \E field \in {"speed", "velocity", "angularVelocity"}, w \in CallerWrites :
          Store(WriteSnapshotOp(KartRec, field, w))
    /\ UNCHANGED <<group, kartTicks, camVars, inputVars, eventVars>>

SetPosition ==
    /\ Store(SetPositionOp(KartRec))
    /\ UNCHANGED <<group, kartTicks, camVars, inputVars, eventVars>>

ResetKart ==
    /\ Store(ResetKartOp(KartRec))
    /\ UNCHANGED <<group, kartTicks, camVars, inputVars, eventVars>>

\* Kart.dispose: this.group.clear() and a console message; the controls, the
\* physics body and the state snapshot are left as they are
Dispose ==
    /\ group' = 0
    /\ UNCHANGED <<controls, bodyVel, bodyForce, bodyTorque, steerValue, kstate, objects, snapshot, kartTicks, camVars, inputVars, eventVars>>

\* Game.update, the kart's part: updateKartControls, playerKart.update, physics.step,
\* in a frame of the step's length
GameUpdate ==
    /\ \E a \in GameAccelerate, b \in GameBrake, s \in GameSteering :
          Store(PhysicsStepOp(KartUpdateOp(SetControlsOp(KartRec,
                    [accelerate |-> a, brake |-> b, steering |-> s]), 1000 \div stepsPerSecond)))
    /\ UNCHANGED <<group, kartTicks, camVars, inputVars, eventVars>>

\* The controls of a kart driven straight ahead at full throttle
HeldControls == [accelerate |-> 1, brake |-> 0, steering |-> 0]

\* One frame of Game.update with the accelerator held: updateKartControls,
\* playerKart.update, physics.step
HoldTick(k) == PhysicsStepOp(KartUpdateOp(SetControlsOp(k, HeldControls), 1000 \div stepsPerSecond))

\* Game.update with the accelerator held, frame after frame from the start
HeldFrame ==
    /\ kartTicks < MaxHeldTicks
    /\ Store(HoldTick(KartRec))
    /\ kartTicks' = kartTicks + 1
    /\ UNCHANGED <<group, camVars, inputVars, eventVars>>

\* The kart after construction
RestKart == [controls |-> InitControls, vel |-> ZeroVec2, force |-> ZeroVec2, torque |-> 0,
             steerValue |-> 0, kstate |-> InitKState, objects |-> InitObjects, snapshot |-> NoSnapshot]

\* The kart at rest followed by its states after 1..n frames with the accelerator held
RECURSIVE HeldRun(_)
HeldRun(n) ==
    IF n = 0 THEN << RestKart >>
    ELSE LET run == HeldRun(n - 1) IN Append(run, HoldTick(run[Len(run)]))

HeldStates == {HeldRun(MaxHeldTicks)[i] : i \in 1..(MaxHeldTicks + 1)}

KartInit ==
    /\ controls = InitControls
    /\ bodyVel = ZeroVec2
    /\ bodyForce = ZeroVec2
    /\ bodyTorque = 0
    /\ steerValue = 0
    /\ kstate = InitKState
    /\ objects = InitObjects
    /\ snapshot = NoSnapshot
    /\ group = GroupChildren
    /\ kartTicks = 0

-----------------------------------------------------------------------------
(* CameraManager: values *)

\* NaN, as a value no computation of the model produces otherwise
NaN == -(10 ^ 9)

\* THREE.MathUtils.lerp(x, y, t) = (1 - t) * x + t * y, t in thousandths
Lerp(x, y, t) ==
    IF x = NaN \/ y = NaN \/ t = NaN THEN NaN ELSE x + DivRound((y - x) * t, 1000)

Vec(a, b, c) == [x |-> a, y |-> b, z |-> c]

ZeroVec3 == Vec(0, 0, 0)

VecAdd(a, b) == Vec(a.x + b.x, a.y + b.y, a.z + b.z)

VecSub(a, b) == Vec(a.x - b.x, a.y - b.y, a.z - b.z)

\* Vector3.lerp(v, alpha): this += (v - this) * alpha, alpha in thousandths
VecLerp(a, b, t) == Vec(Lerp(a.x, b.x, t), Lerp(a.y, b.y, t), Lerp(a.z, b.z, t))

\* squared length
LenSq(a) == a.x * a.x + a.y * a.y + a.z * a.z

NoTransition == [id |-> 0]

NoBounds == [set |-> FALSE]

NoTarget == [set |-> FALSE]

\* CameraManager.createDefaultConfig; smoothing and offset are object ids into
\* the heap of nested objects (1: the default smoothing, 2: the default offset)
DefaultConfig ==
    [mode |-> "follow", followType |-> "behind", fov |-> 75000,
     smoothing |-> 1, offset |-> 2, enableCollisionDetection |-> TRUE]

\* The nested objects createDefaultConfig allocates: smoothing (position 0.1,
\* lookAt 0.15; smoothing.rotation is interpolated the same way and is not
\* carried) and offset (position (0, 5, 10))
DefaultNested == << [position |-> 100, lookAt |-> 150], [position |-> Vec(0, 5 * PScale, 10 * PScale)] >>

\* CameraManager.createInitialState, with the camera it applies the config to
InitCam ==
    [config |-> DefaultConfig,
     mode |-> DefaultConfig.mode,
     position |-> ZeroVec3,
     lookAtTarget |-> ZeroVec3,
     hasTarget |-> FALSE,
     isTransitioning |-> FALSE,
     transitionProgress |-> 0,
     shake |-> [isActive |-> FALSE, timeRemaining |-> 0, currentIntensity |-> 0, offset |-> ZeroVec3],
     transitionData |-> NoTransition,
     bounds |-> NoBounds,
     cameraFov |-> DefaultConfig.fov,
     cameraPosition |-> ZeroVec3]

InitHist ==
    [started |-> 0,            \* transitionTo calls so far; the id of the newest transition
     completed |-> << >>,      \* per transition id: transitionCompleted events emitted for it
     onComplete |-> << >>,     \* per transition id: onComplete calls made for it
     updates |-> 0,            \* update calls so far
     shakes |-> 0,             \* startShake calls so far
     shakeDue |-> 0,           \* duration of the newest shake less the delta times (ms)
                               \* of the updates applied to it
     shakeUpdated |-> FALSE,   \* an update has been applied to the newest shake
     shakeEnded |-> 0,         \* shakeEnded events emitted since the newest shake started
     threw |-> FALSE]          \* the last update call ended with an exception

\* The working state of one camera operation
Work == [cam |-> cam, nested |-> nested, hist |-> hist, emitted |-> << >>,
         listeners |-> eventListeners, delivered |-> << >>]

CamStore(w) ==
    /\ cam' = w.cam
    /\ nested' = w.nested
    /\ hist' = w.hist
    /\ emitted' = w.emitted
    /\ eventListeners' = w.listeners
    /\ delivered' = w.delivered

\* The event whose listener array is followed
ListenedEvent == "modeChanged"

\* The position of the callback id in the array, 0 when it is not there (indexOf)
IndexOf(listeners, id) ==
    IF \E i \in DOMAIN listeners : listeners[i].id = id
    THEN CHOOSE i \in DOMAIN listeners :
            listeners[i].id = id /\ \A j \in DOMAIN listeners : listeners[j].id = id => i <= j
    ELSE 0

\* CameraManager.off: listeners.splice(index, 1) when the callback is found
OffOp(listeners, id) ==
    LET index == IndexOf(listeners, id)
    IN IF index = 0 THEN listeners
       ELSE [i \in 1..(Len(listeners) - 1) |-> IF i < index THEN listeners[i] ELSE listeners[i + 1]]

\* CameraManager.on: push
OnOp(listeners, callback) == Append(listeners, callback)

\* A listener runs: it calls off() for the callback it removes, if any
CallListener(listeners, callback) ==
    IF callback.removes = 0 THEN listeners ELSE OffOp(listeners, callback.removes)

\* listeners.forEach(callback => callback(data)) on the array itself: the indices
\* 0..len-1 of the length at the start are visited, and an index the array no
\* longer has when its turn comes is passed over
RECURSIVE ForEach(_, _, _)
ForEach(r, k, len) ==
    IF k > len THEN r
    ELSE IF k > Len(r.listeners) THEN ForEach(r, k + 1, len)
    ELSE ForEach([listeners |-> CallListener(r.listeners, r.listeners[k]),
                  delivered |-> Append(r.delivered, r.listeners[k].id)], k + 1, len)

\* The delivery of emit
Deliver(listeners, calls) ==
    ForEach([listeners |-> listeners, delivered |-> calls], 1, Len(listeners))

\* CameraManager.emit: the listeners of the event are called with the data
Emit(w, ev) ==
    LET r == IF ev.type = ListenedEvent
             THEN Deliver(w.listeners, w.delivered)
             ELSE [listeners |-> w.listeners, delivered |-> w.delivered]
    IN [w EXCEPT !.emitted = Append(@, ev), !.listeners = r.listeners, !.delivered = r.delivered]

\* CameraManager.updateCameraFromConfig: camera.fov = config.fov
UpdateCameraFromConfig(w) == [w EXCEPT !.cam.cameraFov = w.cam.config.fov]

-----------------------------------------------------------------------------
(* CameraManager: transitions *)

\* { ...this.config, ...targetConfig }: the keys the partial config carries
\* replace the config's; a nested object it carries is a new object (newSmoothing,
\* newOffset: the ids it gets)
MergeConfig(config, partial, newSmoothing, newOffset) ==
    [mode |-> IF "mode" \in partial.keys THEN partial.mode ELSE config.mode,
     followType |-> config.followType,
     fov |-> IF "fov" \in partial.keys THEN partial.fov ELSE config.fov,
     smoothing |-> IF "smoothing" \in partial.keys THEN newSmoothing ELSE config.smoothing,
     offset |-> IF "offset" \in partial.keys THEN newOffset ELSE config.offset,
     enableCollisionDetection |-> config.enableCollisionDetection]

\* The heap after the caller built the partial config's nested objects
AllocNested(heap, partial) ==
    LET h1 == IF "smoothing" \in partial.keys THEN Append(heap, partial.smoothing) ELSE heap
    IN IF "offset" \in partial.keys THEN Append(h1, [position |-> partial.offset]) ELSE h1

\* transitionTo that, called during a transition in flight, keeps that
\* transition's start config instead of taking the live config
TransitionToFromStart(w, partial, duration, easing, onComplete, time) ==
    LET heap == AllocNested(w.nested, partial)
        newSmoothing == Len(w.nested) + 1
        newOffset == Len(heap)
        fromConfig == IF w.cam.transitionData.id # 0 THEN w.cam.transitionData.fromConfig
                      ELSE w.cam.config
        toConfig == MergeConfig(w.cam.config, partial, newSmoothing, newOffset)
        id == w.hist.started + 1
        transition == [id |-> id, fromConfig |-> fromConfig, toConfig |-> toConfig,
                       duration |-> duration, easing |-> easing, onComplete |-> onComplete,
                       startTime |-> time]
        w1 == [w EXCEPT !.nested = heap,
                        !.cam.transitionData = transition,
                        !.cam.isTransitioning = TRUE,
                        !.cam.transitionProgress = 0,
                        !.hist.started = id,
                        !.hist.completed = Append(@, 0),
                        !.hist.onComplete = Append(@, 0)]
    IN Emit(w1, [type |-> "transitionStarted", id |-> id])

\* CameraManager.transitionTo. The call takes no callback: onComplete tells
\* whether a listener of transitionStarted, which is handed the transition
\* object, sets its optional onComplete field
TransitionToOp(w, partial, duration, easing, onComplete, time) ==
    LET heap == AllocNested(w.nested, partial)
        newSmoothing == Len(w.nested) + 1
        newOffset == Len(heap)
        fromConfig == w.cam.config
        toConfig == MergeConfig(w.cam.config, partial, newSmoothing, newOffset)
        id == w.hist.started + 1
        transition == [id |-> id, fromConfig |-> fromConfig, toConfig |-> toConfig,
                       duration |-> duration, easing |-> easing, onComplete |-> onComplete,
                       startTime |-> time]
        w1 == [w EXCEPT !.nested = heap,
                        !.cam.transitionData = transition,
                        !.cam.isTransitioning = TRUE,
                        !.cam.transitionProgress = 0,
                        !.hist.started = id,
                        !.hist.completed = Append(@, 0),
                        !.hist.onComplete = Append(@, 0)]
    IN Emit(w1, [type |-> "transitionStarted", id |-> id])

\* Math.min(elapsed / duration, 1) in thousandths: 0 / 0 is NaN and
\* Math.min(NaN, 1) is NaN; a positive elapsed over 0 is Infinity
Progress(elapsed, duration) ==
    IF duration = 0 THEN (IF elapsed = 0 THEN NaN ELSE 1000)
    ELSE IF duration > 0 THEN Min((elapsed * 1000) \div duration, 1000)
    ELSE Min(-((elapsed * 1000) \div (-duration)), 1000)

\* CameraManager.applyEasing, in thousandths
ApplyEasing(t, easing) ==
    IF t = NaN THEN NaN
    ELSE CASE easing = "linear" -> t
           [] easing = "easeIn" -> (t * t) \div 1000
           [] easing = "easeOut" -> 1000 - ((1000 - t) * (1000 - t)) \div 1000
           [] easing = "easeInOut" ->
                IF t < 500 THEN (2 * t * t) \div 1000
                ELSE 1000 - ((2000 - 2 * t) * (2000 - 2 * t)) \div 2000
           [] OTHER -> t

\* CameraManager.interpolateConfig: fov is written into the config; the
\* smoothing and offset values are written into the nested objects the live
\* config refers to, each write reading from's and to's objects as they are
\* at that moment
InterpolateConfig(w, from, to, t) ==
    LET s == w.cam.config.smoothing
        h0 == [w.nested EXCEPT ![s].position =
                  Lerp(w.nested[from.smoothing].position, w.nested[to.smoothing].position, t)]
        h1 == [h0 EXCEPT ![s].lookAt =
                  Lerp(h0[from.smoothing].lookAt, h0[to.smoothing].lookAt, t)]
        o == w.cam.config.offset
        h2 == [h1 EXCEPT ![o] =
                  [position |-> VecLerp(h1[from.offset].position, h1[to.offset].position, t)]]
    IN UpdateCameraFromConfig(
         [w EXCEPT !.cam.config.fov = Lerp(from.fov, to.fov, t), !.nested = h2])

\* The completion branch of updateTransition
CompleteTransition(w) ==
    LET tr == w.cam.transitionData
        w1 == [w EXCEPT !.cam.isTransitioning = FALSE,
                        !.cam.transitionProgress = 1000,
                        !.cam.config = tr.toConfig,
                        !.cam.transitionData = NoTransition,
                        !.hist.completed[tr.id] = @ + 1]
        w2 == Emit(w1, [type |-> "transitionCompleted", id |-> tr.id])
    IN IF tr.onComplete THEN [w2 EXCEPT !.hist.onComplete[tr.id] = @ + 1] ELSE w2

\* CameraManager.updateTransition
UpdateTransition(w, time) ==
    IF w.cam.transitionData.id = 0 THEN w
    ELSE LET tr == w.cam.transitionData
             progress == Progress(time - tr.startTime, tr.duration)
             easedProgress == ApplyEasing(progress, tr.easing)
             w1 == InterpolateConfig([w EXCEPT !.cam.transitionProgress = easedProgress],
                                     tr.fromConfig, tr.toConfig, easedProgress)
         IN IF progress # NaN /\ progress >= 1000 THEN CompleteTransition(w1) ELSE w1

-----------------------------------------------------------------------------
(* CameraManager: shake *)

\* CameraManager.startShake
StartShakeOp(w, duration, intensity) ==
    Emit([w EXCEPT !.cam.shake = [isActive |-> TRUE, timeRemaining |-> duration,
                                  currentIntensity |-> intensity, offset |-> ZeroVec3],
                   !.hist.shakes = @ + 1,
                   !.hist.shakeDue = duration,
                   !.hist.shakeUpdated = FALSE,
                   !.hist.shakeEnded = 0],
         [type |-> "shakeStarted", duration |-> duration, intensity |-> intensity])

\* stopShake that leaves the last offset in place
StopShakeKeepsOffset(w) ==
    IF w.cam.shake.isActive
    THEN Emit([w EXCEPT !.cam.shake.isActive = FALSE,
                        !.cam.shake.timeRemaining = 0,
                        !.cam.shake.currentIntensity = 0,
                        !.hist.shakeEnded = @ + 1],
              [type |-> "shakeEnded"])
    ELSE w

\* CameraManager.stopShake
StopShakeOp(w) ==
    IF w.cam.shake.isActive
    THEN Emit([w EXCEPT !.cam.shake = [isActive |-> FALSE, timeRemaining |-> 0,
                                       currentIntensity |-> 0, offset |-> ZeroVec3],
                        !.hist.shakeEnded = @ + 1],
              [type |-> "shakeEnded"])
    ELSE w

\* (Math.random() - 0.5) * intensity on each axis: rnd holds the three random
\* factors in thousandths, intensity is in thousandths of a world unit
ShakeOffset(rnd, intensity) ==
    Vec(DivRound(rnd.x * intensity * PScale, 1000000),
        DivRound(rnd.y * intensity * PScale, 1000000),
        DivRound(rnd.z * intensity * PScale, 1000000))

\* updateShake that stops the shake only once timeRemaining is below zero
UpdateShakeStrictExpiry(w, deltaMs, rnd) ==
    IF ~w.cam.shake.isActive THEN w
    ELSE LET w1 == [w EXCEPT !.cam.shake.timeRemaining = @ - deltaMs,
                             !.hist.shakeDue = @ - deltaMs,
                             !.hist.shakeUpdated = TRUE]
         IN IF w1.cam.shake.timeRemaining < 0 THEN StopShakeOp(w1)
            ELSE [w1 EXCEPT !.cam.shake.offset = ShakeOffset(rnd, w1.cam.shake.currentIntensity),
                            !.cam.shake.currentIntensity = (@ * 95) \div 100]

\* updateShake that scales the intensity by 1.05 instead of 0.95
UpdateShakeAmplifies(w, deltaMs, rnd) ==
    IF ~w.cam.shake.isActive THEN w
    ELSE LET w1 == [w EXCEPT !.cam.shake.timeRemaining = @ - deltaMs,
                             !.hist.shakeDue = @ - deltaMs,
                             !.hist.shakeUpdated = TRUE]
         IN IF w1.cam.shake.timeRemaining <= 0 THEN StopShakeOp(w1)
            ELSE [w1 EXCEPT !.cam.shake.offset = ShakeOffset(rnd, w1.cam.shake.currentIntensity),
                            !.cam.shake.currentIntensity = (@ * 105) \div 100]

\* CameraManager.updateShake; deltaMs is deltaTime * 1000
UpdateShake(w, deltaMs, rnd) ==
    IF ~w.cam.shake.isActive THEN w
    ELSE LET w1 == [w EXCEPT !.cam.shake.timeRemaining = @ - deltaMs,
                             !.hist.shakeDue = @ - deltaMs,
                             !.hist.shakeUpdated = TRUE]
         IN IF w1.cam.shake.timeRemaining <= 0 THEN StopShakeOp(w1)
            ELSE [w1 EXCEPT !.cam.shake.offset = ShakeOffset(rnd, w1.cam.shake.currentIntensity),
                            !.cam.shake.currentIntensity = (@ * 95) \div 100]

-----------------------------------------------------------------------------
(* CameraManager: following the target *)

\* Vector3.applyEuler for a target rotated about the y axis by yaw quarter turns
RotateYaw(v, yaw) ==
    CASE yaw = 0 -> v
      [] yaw = 1 -> Vec(v.z, v.y, -v.x)
      [] yaw = 2 -> Vec(-v.x, v.y, -v.z)
      [] OTHER -> Vec(-v.z, v.y, v.x)

\* CameraManager.calculateDesiredPosition (the time-driven ORBIT sweep is not modelled)
CalculateDesiredPosition(config, offset, tg) ==
    CASE config.followType = "behind" ->
            VecAdd(RotateYaw(Vec(0, offset.y, offset.z), tg.yaw), tg.position)
      [] config.followType = "chase" ->
            VecAdd(RotateYaw(VecAdd(Vec(0, offset.y, offset.z),
                                    Vec(tg.velocity.x \div 2, tg.velocity.y \div 2, tg.velocity.z \div 2)),
                             tg.yaw),
                   tg.position)
      [] config.followType = "overhead_view" ->
            VecAdd(tg.position, Vec(offset.x, Abs(offset.y), offset.z))
      [] config.followType = "side_view" ->
            VecAdd(RotateYaw(Vec(offset.x, offset.y, 0), tg.yaw), tg.position)
      [] OTHER -> VecAdd(tg.position, offset)

\* CameraManager.calculateDesiredLookAt
CalculateDesiredLookAt(config, tg) ==
    IF config.followType \in {"behind", "chase"}
    THEN VecAdd(RotateYaw(Vec(0, 0, -10 * PScale), tg.yaw), tg.position)
    ELSE tg.position

\* updateCameraPosition without the early return for a missing target
UpdateCameraPositionAlways(w, tg) ==
    LET config == w.cam.config
        smoothing == w.nested[config.smoothing]
        desiredPosition == CalculateDesiredPosition(config, w.nested[config.offset].position, tg)
        desiredLookAt == CalculateDesiredLookAt(config, tg)
    IN [w EXCEPT !.cam.position = VecLerp(@, desiredPosition, smoothing.position),
                 !.cam.lookAtTarget = VecLerp(@, desiredLookAt, smoothing.lookAt)]

\* CameraManager.updateCameraPosition (the rotation smoothing is not modelled)
UpdateCameraPosition(w, tg) ==
    IF ~w.cam.hasTarget THEN w
    ELSE LET config == w.cam.config
             smoothing == w.nested[config.smoothing]
             desiredPosition == CalculateDesiredPosition(config, w.nested[config.offset].position, tg)
             desiredLookAt == CalculateDesiredLookAt(config, tg)
         IN [w EXCEPT !.cam.position = VecLerp(@, desiredPosition, smoothing.position),
                      !.cam.lookAtTarget = VecLerp(@, desiredLookAt, smoothing.lookAt)]

\* The point of a raycast hit: hit.at out of RaySteps of the way from the
\* target to the camera position along the ray (RaySteps is the camera
\* position itself, more is beyond it)
HitPoint(hit, from, to) ==
    Vec(from.x + DivRound((to.x - from.x) * hit.at, RaySteps),
        from.y + DivRound((to.y - from.y) * hit.at, RaySteps),
        from.z + DivRound((to.z - from.z) * hit.at, RaySteps))

\* intersect.face?.normal || new THREE.Vector3(0, 1, 0)
HitNormal(hit) == IF hit.hasFace THEN hit.normal ELSE Vec(0, 1, 0)

\* index of the first intersect that is not the target's own object and whose
\* distance is less than the target's distance to the camera position, 0 if
\* there is none
RECURSIVE FirstOccluder(_, _, _)
FirstOccluder(hits, i, cameraAway) ==
    IF i > Len(hits) THEN 0
    ELSE IF ~hits[i].isTarget /\ cameraAway /\ hits[i].at < RaySteps THEN i
    ELSE FirstOccluder(hits, i + 1, cameraAway)

\* the camera position at collision point + normal * minDistanceFromSurface
CollisionPosition(collisionPoint, normal) ==
    Vec(collisionPoint.x + DivRound(normal.x * PScale, MinDistanceDivisor),
        collisionPoint.y + DivRound(normal.y * PScale, MinDistanceDivisor),
        collisionPoint.z + DivRound(normal.z * PScale, MinDistanceDivisor))

\* CameraManager.handleCollisions; hits is what raycaster.intersectObjects returns
HandleCollisions(w, tg, hits) ==
    IF ~w.cam.hasTarget THEN w
    ELSE LET i == FirstOccluder(hits, 1, LenSq(VecSub(w.cam.position, tg.position)) > 0)
         IN IF i = 0 THEN w
            ELSE LET collisionPoint == HitPoint(hits[i], tg.position, w.cam.position)
                     normal == HitNormal(hits[i])
                 IN Emit([w EXCEPT !.cam.position = CollisionPosition(collisionPoint, normal)],
                         [type |-> "collisionDetected", position |-> collisionPoint, normal |-> normal])

\* THREE.MathUtils.clamp(value, min, max) = Math.max(min, Math.min(max, value))
Clamp(value, min, max) == Max(min, Min(max, value))

\* constrainToBounds that clamps the horizontal axes only
ConstrainHorizontally(w) ==
    IF ~w.cam.bounds.set THEN w
    ELSE LET b == w.cam.bounds
             p == w.cam.position
         IN [w EXCEPT !.cam.position = Vec(Clamp(p.x, b.min.x, b.max.x), p.y,
                                           Clamp(p.z, b.min.z, b.max.z))]

\* CameraManager.constrainToBounds
ConstrainToBounds(w) ==
    IF ~w.cam.bounds.set THEN w
    ELSE LET b == w.cam.bounds
             p == w.cam.position
         IN [w EXCEPT !.cam.position = Vec(Clamp(p.x, b.min.x, b.max.x),
                                           Clamp(p.y, b.min.y, b.max.y),
                                           Clamp(p.z, b.min.z, b.max.z))]

\* CameraManager.applyCameraTransform (camera.lookAt only turns the camera)
ApplyCameraTransform(w) ==
    [w EXCEPT !.cam.cameraPosition =
        IF w.cam.shake.isActive THEN VecAdd(w.cam.position, w.cam.shake.offset) ELSE w.cam.position]

\* CameraManager.update. handleCollisions calls raycaster.intersectObjects
\* outside any try block: when the call throws (throws), the exception leaves
\* update after updateCameraPosition, before constrainToBounds and
\* applyCameraTransform
UpdateOp(w, deltaMs, rnd, hits, throws, time, tg) ==
    LET w1 == IF w.cam.isTransitioning THEN UpdateTransition(w, time) ELSE w
        w2 == IF w1.cam.shake.isActive THEN UpdateShake(w1, deltaMs, rnd) ELSE w1
        w3 == UpdateCameraPosition(w2, tg)
        collisions == w3.cam.config.enableCollisionDetection /\ CollisionConfigEnabled
        w4 == IF collisions THEN HandleCollisions(w3, tg, hits) ELSE w3
        w5 == IF w4.cam.bounds.set THEN ConstrainToBounds(w4) ELSE w4
    IN IF collisions /\ w3.cam.hasTarget /\ throws
       THEN [w3 EXCEPT !.hist.updates = @ + 1, !.hist.threw = TRUE]
       ELSE ApplyCameraTransform([w5 EXCEPT !.hist.updates = @ + 1, !.hist.threw = FALSE])

\* The tracked object after an update whose calculateDesiredPosition
\* accumulates into the target's own position vector
TargetAfterUpdateAliased(w, tg) ==
    IF ~w.cam.hasTarget THEN tg
    ELSE [tg EXCEPT !.position =
              CalculateDesiredPosition(w.cam.config, w.nested[w.cam.config.offset].position, tg)]

\* The tracked object after CameraManager.update. updateCameraPosition,
\* calculateDesiredPosition, calculateDesiredLookAt and handleCollisions take
\* target.object3D.position, target.object3D.rotation and target.velocity as
\* arguments of set, copy, add, applyEuler, subVectors, distanceTo and
\* raycaster.set; the receivers are tempVector3A, tempVector3B, state.position
\* and state.lookAtTarget
TargetAfterUpdate(w, tg) == tg

\* CameraManager.setMode
SetModeOp(w, mode, followType) ==
    Emit([w EXCEPT !.cam.mode = mode,
                   !.cam.config.mode = mode,
                   !.cam.config.followType = IF followType # "" THEN followType ELSE @],
         [type |-> "modeChanged", from |-> w.cam.mode, to |-> mode])

\* CameraManager.setTarget
SetTargetOp(w) == Emit([w EXCEPT !.cam.hasTarget = TRUE], [type |-> "targetChanged", to |-> TRUE])

\* CameraManager.clearTarget
ClearTargetOp(w) == Emit([w EXCEPT !.cam.hasTarget = FALSE], [type |-> "targetChanged", to |-> FALSE])

\* CameraManager.setBounds
SetBoundsOp(w, min, max) == [w EXCEPT !.cam.bounds = [set |-> TRUE, min |-> min, max |-> max]]

-----------------------------------------------------------------------------
(* CameraController (src/src/game/CameraController.ts): the chase camera of    *)
(* the game.  Lengths are in position units, ratios in thousandths.          *)

\* The config Game.createGameScene constructs the controller with
ControllerConfig == [mode |-> "chase", distance |-> 8, height |-> 4, lookAhead |-> 3, smoothing |-> 80]

\* Kart.getState as the controller reads it: a copy of the snapshot, from
\* which the controller builds vectors of its own
GetState(tg) == [position |-> tg.position, rotation |-> tg.yaw, velocity |-> tg.velocity,
                 steering |-> tg.steering]

\* Vector3.length, rounded down
VecLength(v) == ISqrt(LenSq(v))

\* Vector3.multiplyScalar by num / den
VecScale(v, num, den) == Vec(DivRound(v.x * num, den), DivRound(v.y * num, den), DivRound(v.z * num, den))

\* CameraController.calculateChasePosition
CalculateChasePosition(kartPosition, kartRotation, kartVelocity) ==
    LET speed == VecLength(kartVelocity)
        speedFactor == Min((speed * 1000) \div (20 * PScale), 1500)
        dynamicDistance == DivRound(ControllerConfig.distance * PScale * (10000 + 3 * speedFactor), 10000)
    IN VecAdd(VecAdd(kartPosition, RotateYaw(Vec(0, 0, dynamicDistance), kartRotation)),
              Vec(0, ControllerConfig.height * PScale, 0))

\* CameraController.calculateLookAheadPoint
CalculateLookAheadPoint(kartPosition, kartVelocity, kartRotation) ==
    LET lookAtBase == VecAdd(kartPosition, Vec(0, PScale, 0))
        speed == VecLength(kartVelocity)
        lookAheadDistance == Min(speed * ControllerConfig.lookAhead, 15 * PScale)
    IN IF 10 * lookAheadDistance > PScale
       THEN VecAdd(lookAtBase, VecScale(kartVelocity, lookAheadDistance, speed))
       ELSE VecAdd(lookAtBase, RotateYaw(Vec(0, 0, -(ControllerConfig.lookAhead * PScale)), kartRotation))

\* CameraController.calculateBanking
CalculateBanking(kartState) ==
    LET steeringInput == kartState.steering
        speed == VecLength(kartState.velocity)
        bankingIntensity == (Abs(steeringInput) * Min((speed * 1000) \div (15 * PScale), 1000) * 8) \div 10000
        sideways == DivRound(steeringInput * bankingIntensity * PScale, 1000000)
        bankingOffset == RotateYaw(Vec(sideways, 0, 0), kartState.rotation)
    IN [bankingOffset EXCEPT !.y = @ + DivRound(Abs(steeringInput) * 2 * PScale, 10000)]

\* The camera target of a mode: updateChaseCamera, updateFollowCamera,
\* updateOverheadCamera, updateCockpitCamera
ModeTarget(mode, kartState) ==
    CASE mode = "chase" ->
            [position |-> VecAdd(CalculateChasePosition(kartState.position, kartState.rotation, kartState.velocity),
                                 CalculateBanking(kartState)),
             lookAt |-> CalculateLookAheadPoint(kartState.position, kartState.velocity, kartState.rotation)]
      [] mode = "follow" ->
            [position |-> VecAdd(kartState.position,
                                 Vec(-(ControllerConfig.distance * PScale), ControllerConfig.height * PScale, 0)),
             lookAt |-> kartState.position]
      [] mode = "overhead" ->
            [position |-> VecAdd(kartState.position, Vec(0, 20 * PScale, 0)),
             lookAt |-> kartState.position]
      [] OTHER ->
            [position |-> VecAdd(kartState.position, Vec(0, (12 * PScale) \div 10, (3 * PScale) \div 10)),
             lookAt |-> VecAdd(kartState.position, RotateYaw(Vec(0, 0, -10 * PScale), kartState.rotation))]

\* The camera target initializePosition sets up: setupChaseCamera,
\* setupFollowCamera, setupOverheadCamera, setupCockpitCamera
SetupTarget(mode, kartState) ==
    IF mode = "chase"
    THEN [position |-> VecAdd(VecAdd(kartState.position,
                                     RotateYaw(Vec(0, 0, ControllerConfig.distance * PScale), kartState.rotation)),
                              Vec(0, ControllerConfig.height * PScale, 0)),
          lookAt |-> VecAdd(kartState.position, Vec(0, PScale, 0))]
    ELSE ModeTarget(mode, kartState)

\* CameraController.initializePosition: the current vectors start at the target vectors
InitializePosition(c, kartState) ==
    LET t == SetupTarget(c.mode, kartState)
    IN [c EXCEPT !.targetPosition = t.position, !.targetLookAt = t.lookAt,
                 !.currentPosition = t.position, !.currentLookAt = t.lookAt]

\* CameraController.update: the mode's target vectors, then the current
\* vectors interpolated towards them and applied to the camera
ControllerUpdateOp(c, kartState) ==
    LET t == ModeTarget(c.mode, kartState)
    IN [c EXCEPT !.targetPosition = t.position, !.targetLookAt = t.lookAt,
                 !.currentPosition = VecLerp(@, t.position, ControllerConfig.smoothing),
                 !.currentLookAt = VecLerp(@, t.lookAt, ControllerConfig.smoothing),
                 !.updates = @ + 1]

\* CameraController.setCameraMode
SetCameraModeOp(c, mode, kartState) == InitializePosition([c EXCEPT !.mode = mode], kartState)

\* The kart after CameraController.update or setCameraMode: the controller
\* copies the components of kartState.position, rotation and velocity into
\* vectors it allocates, and writes only those and its own four vectors
TargetAfterController(c, tg) == tg

\* The order in which Game.switchCameraMode steps through the modes
NextCameraMode(mode) ==
    CASE mode = "chase" -> "follow"
      [] mode = "follow" -> "overhead"
      [] mode = "overhead" -> "cockpit"
      [] OTHER -> "chase"

\* The controller after its constructor ran against the kart at the start
InitController ==
    InitializePosition([mode |-> ControllerConfig.mode, targetPosition |-> ZeroVec3, targetLookAt |-> ZeroVec3,
                        currentPosition |-> ZeroVec3, currentLookAt |-> ZeroVec3, updates |-> 0],
                       GetState([position |-> ZeroVec3, yaw |-> 0, velocity |-> ZeroVec3, steering |-> 0]))

-----------------------------------------------------------------------------
(* Camera: inputs of the operations *)

\* A Partial<CameraConfig>: the keys it carries and their values (the value
\* of a key it does not carry is never read)
Partial(keys, mode, fov, smoothing, offset) ==
    [keys |-> keys, mode |-> mode, fov |-> fov, smoothing |-> smoothing, offset |-> offset]

FovOnly(fov) == Partial({"fov"}, "follow", fov, [position |-> 0, lookAt |-> 0], ZeroVec3)

\* transitionTo calls: the partial config, the duration in clock units, the easing
TransitionRequests ==
    { [partial |-> Partial({"fov", "mode"}, "cinematic", 90000, [position |-> 0, lookAt |-> 0], ZeroVec3),
       duration |-> MaxTime, easing |-> "easeOut"],
      [partial |-> FovOnly(60000), duration |-> 2, easing |-> "linear"],
      [partial |-> Partial({"smoothing"}, "follow", 0, [position |-> 500, lookAt |-> 600], ZeroVec3),
       duration |-> 2, easing |-> "easeInOut"],
      [partial |-> Partial({"fov", "offset"}, "follow", 120000, [position |-> 0, lookAt |-> 0],
                           Vec(0, 3 * PScale, 8 * PScale)),
       duration |-> 3, easing |-> "easeIn"],
      [partial |-> FovOnly(90000), duration |-> 0, easing |-> "easeOut"],
      [partial |-> FovOnly(90000), duration |-> -2, easing |-> "linear"] }

\* deltaTime * 1000 of an update call
DeltaTimes == {-1, 0, 1, 2}

\* startShake calls: duration in ms, intensity in thousandths of a world unit
ShakeConfigs ==
    { [duration |-> 2, intensity |-> 1000],
      [duration |-> 3, intensity |-> 4000],
      [duration |-> 0, intensity |-> 1000] }

\* Outcomes of the three Math.random() - 0.5 draws, in thousandths
ShakeSamples == { Vec(-500, -500, -500), Vec(499, -250, 0) }

Hit(isTarget, at, hasFace, normal) ==
    [isTarget |-> isTarget, at |-> at, hasFace |-> hasFace, normal |-> normal]

\* What raycaster.intersectObjects may return, nearest first, in a scene that
\* holds the target alone
OpenRayHits == { << >>, << Hit(TRUE, 0, TRUE, Vec(0, 0, 1)) >> }

\* What it may return in a scene with other objects
OccludedRayHits ==
    { << >>,
      << Hit(TRUE, 0, TRUE, Vec(0, 0, 1)), Hit(FALSE, RaySteps \div 2, FALSE, ZeroVec3) >>,
      << Hit(FALSE, RaySteps \div 2, TRUE, Vec(0, 0, -1)) >>,
      << Hit(FALSE, 1, TRUE, Vec(0, 0, 1)), Hit(FALSE, RaySteps \div 2, TRUE, Vec(1, 0, 0)) >>,
      << Hit(FALSE, RaySteps + 1, TRUE, Vec(0, 1, 0)) >> }

RayHits == IF scene = "occluded" THEN OccludedRayHits ELSE OpenRayHits

\* Whether raycaster.intersectObjects throws: it does in a scene holding an
\* object whose raycast method fails
RaycastThrows == {scene = "faulty"}

\* Places and headings of the tracked object
TargetStates ==
    { [position |-> ZeroVec3, yaw |-> 0, velocity |-> ZeroVec3, steering |-> 0],
      [position |-> Vec(100 * PScale, 100 * PScale, 100 * PScale), yaw |-> 1,
       velocity |-> Vec(5 * PScale, 0, 0), steering |-> 524] }

\* setBounds calls: the box of the bounds test, and a box whose min exceeds its max
BoundsChoices ==
    { [min |-> Vec(-10 * PScale, 0, -10 * PScale), max |-> Vec(10 * PScale, 20 * PScale, 10 * PScale)],
      [min |-> Vec(5 * PScale, 5 * PScale, 5 * PScale), max |-> Vec(-5 * PScale, -5 * PScale, -5 * PScale)] }

-----------------------------------------------------------------------------
(* Camera actions *)

\* performance.now() moves on
AdvanceClock ==
    /\ now < MaxTime
    /\ now' = now + 1
    /\ emitted' = << >>
    /\ UNCHANGED <<cam, nested, target, scene, controller, hist, kartVars, inputVars, eventVars>>

\* The tracked object moves (the kart's visual group follows the physics body)
MoveTarget ==
    /\ \E tg \in TargetStates : tg # target /\ target' = tg
    /\ emitted' = << >>
    /\ UNCHANGED <<now, cam, nested, scene, controller, hist, kartVars, inputVars, eventVars>>

\* scene.add: objects other than the target enter the scene
AddOccluders ==
    /\ scene = "open"
    /\ scene' = "occluded"
    /\ emitted' = << >>
    /\ UNCHANGED <<now, cam, nested, target, controller, hist, kartVars, inputVars, eventVars>>

\* scene.add: an object whose raycast method throws enters the scene
AddFaultyObject ==
    /\ scene = "open"
    /\ scene' = "faulty"
    /\ emitted' = << >>
    /\ UNCHANGED <<now, cam, nested, target, controller, hist, kartVars, inputVars, eventVars>>

TransitionTo ==
    /\ hist.started < MaxTransitions
    /\ \E r \in TransitionRequests, onComplete \in BOOLEAN :
          CamStore(TransitionToOp(Work, r.partial, r.duration, r.easing, onComplete, now))
    /\ UNCHANGED <<now, target, scene, controller, kartVars, inputVars>>

Update ==
    /\ hist.updates + controller.updates < MaxUpdates
    /\ \E deltaMs \in DeltaTimes, rnd \in ShakeSamples, hits \in RayHits, throws \in RaycastThrows :
          /\ CamStore(UpdateOp(Work, deltaMs, rnd, hits, throws, now, target))
          /\ target' = TargetAfterUpdate(Work, target)
    /\ UNCHANGED <<now, scene, controller, kartVars, inputVars>>

StartShake ==
    /\ hist.shakes < MaxShakes
    /\ \E sc \in ShakeConfigs : CamStore(StartShakeOp(Work, sc.duration, sc.intensity))
    /\ UNCHANGED <<now, target, scene, controller, kartVars, inputVars>>

StopShake ==
    /\ CamStore(StopShakeOp(Work))
    /\ UNCHANGED <<now, target, scene, controller, kartVars, inputVars>>

\* The callbacks registered: a callback that only listens, one that unsubscribes
\* itself, and ones that unsubscribe another callback
Callbacks == [id : 1..MaxListeners, removes : 0..MaxListeners]

\* CameraManager.on for the followed event, with a callback not yet registered
On ==
    /\ \E callback \in Callbacks :
          /\ IndexOf(eventListeners, callback.id) = 0
          /\ eventListeners' = OnOp(eventListeners, callback)
    /\ UNCHANGED <<delivered, camVars, kartVars, inputVars>>

\* CameraManager.off called outside a delivery
Off ==
    /\ \E id \in 1..MaxListeners : eventListeners' = OffOp(eventListeners, id)
    /\ UNCHANGED <<delivered, camVars, kartVars, inputVars>>

SetTarget ==
    /\ CamStore(SetTargetOp(Work))
    /\ UNCHANGED <<now, target, scene, controller, kartVars, inputVars>>

ClearTarget ==
    /\ CamStore(ClearTargetOp(Work))
    /\ UNCHANGED <<now, target, scene, controller, kartVars, inputVars>>

\* setMode calls: a mode and a follow type
ModeChoices ==
    { [mode |-> "follow", followType |-> "chase"],
      [mode |-> "follow", followType |-> "side_view"],
      [mode |-> "follow", followType |-> "front_view"],
      [mode |-> "overhead", followType |-> "overhead_view"] }

SetMode ==
    /\ \E m \in ModeChoices : CamStore(SetModeOp(Work, m.mode, m.followType))
    /\ UNCHANGED <<now, target, scene, controller, kartVars, inputVars>>

\* Game.update, the camera's part: cameraController.update
ControllerUpdate ==
    /\ hist.updates + controller.updates < MaxUpdates
    /\ controller' = ControllerUpdateOp(controller, GetState(target))
    /\ target' = TargetAfterController(controller, target)
    /\ emitted' = << >>
    /\ UNCHANGED <<now, cam, nested, scene, hist, kartVars, inputVars, eventVars>>

\* Game.switchCameraMode
SetCameraMode ==
    /\ controller' = SetCameraModeOp(controller, NextCameraMode(controller.mode), GetState(target))
    /\ target' = TargetAfterController(controller, target)
    /\ emitted' = << >>
    /\ UNCHANGED <<now, cam, nested, scene, hist, kartVars, inputVars, eventVars>>

SetBounds ==
    /\ \E b \in BoundsChoices : CamStore(SetBoundsOp(Work, b.min, b.max))
    /\ UNCHANGED <<now, target, scene, controller, kartVars, inputVars>>

CamInit ==
    /\ now = 0
    /\ cam = InitCam
    /\ nested = DefaultNested
    /\ target = [position |-> ZeroVec3, yaw |-> 0, velocity |-> ZeroVec3, steering |-> 0]
    /\ scene = "open"
    /\ emitted = << >>
    /\ controller = InitController
    /\ hist = InitHist
    /\ eventListeners = << >>
    /\ delivered = << >>

-----------------------------------------------------------------------------
(* InputManager.  The key mapping is the default one; updateKeyMapping and   *)
(* the event history, which the input state does not depend on, are left     *)
(* out, and dispose does to the state what handleFocusLost does              *)

\* keyof InputState
InputActions ==
    {"accelerate", "brake", "steerLeft", "steerRight", "drift", "useItem", "lookBehind",
     "pause", "confirm", "cancel", "menuUp", "menuDown", "menuLeft", "menuRight",
     "cameraToggle", "cameraReset", "debugToggle", "resetVehicle"}

\* DEFAULT_KEY_MAPPING
KeyMapping ==
    [a \in InputActions |->
        CASE a = "accelerate" -> {"KeyW", "ArrowUp"}
          [] a = "brake" -> {"KeyS", "ArrowDown"}
          [] a = "steerLeft" -> {"KeyA", "ArrowLeft"}
          [] a = "steerRight" -> {"KeyD", "ArrowRight"}
          [] a = "drift" -> {"Space", "ShiftLeft", "ShiftRight"}
          [] a = "useItem" -> {"KeyE", "Enter"}
          [] a = "lookBehind" -> {"KeyC"}
          [] a = "pause" -> {"Escape", "KeyP"}
          [] a = "confirm" -> {"Enter", "Space"}
          [] a = "cancel" -> {"Escape", "Backspace"}
          [] a = "menuUp" -> {"KeyW", "ArrowUp"}
          [] a = "menuDown" -> {"KeyS", "ArrowDown"}
          [] a = "menuLeft" -> {"KeyA", "ArrowLeft"}
          [] a = "menuRight" -> {"KeyD", "ArrowRight"}
          [] a = "cameraToggle" -> {"KeyV"}
          [] a = "cameraReset" -> {"KeyR"}
          [] a = "debugToggle" -> {"F3"}
          [] a = "resetVehicle" -> {"F5"}]

\* InputContext
InputContexts == {"menu", "racing", "paused", "loading"}

\* DEFAULT_CONTEXTUAL_MAPPING
ContextualMapping ==
    [c \in InputContexts |->
        CASE c = "menu" -> {"confirm", "cancel", "menuUp", "menuDown", "menuLeft", "menuRight",
                            "debugToggle"}
          [] c = "racing" -> {"accelerate", "brake", "steerLeft", "steerRight", "drift",
                              "useItem", "lookBehind", "pause", "cameraToggle", "cameraReset",
                              "debugToggle", "resetVehicle"}
          [] c = "paused" -> {"pause", "confirm", "cancel", "menuUp", "menuDown", "menuLeft",
                              "menuRight", "debugToggle"}
          [] c = "loading" -> {"cancel", "debugToggle"}]

\* The keys pressed and released: two keys of one action, keys shared by
\* actions of different contexts, and a key mapped to nothing
Keys == {"KeyW", "ArrowUp", "Enter", "Escape", "KeyZ"}

\* The actions triggerAction is called with
TriggeredActions == {"accelerate", "confirm", "debugToggle"}

\* InputManager.createEmptyInputState
EmptyInputState == [a \in InputActions |-> FALSE]

\* The InputManager's fields as one value
InputRec == [inputState |-> inputState, pressedKeys |-> pressedKeys,
             currentContext |-> currentContext, isEnabled |-> isEnabled]

\* InputManager.buildKeyToActionMap, read at one key
KeyToActionMap(key) == {a \in InputActions : key \in KeyMapping[a]}

\* InputManager.isActionAllowedInCurrentContext
IsActionAllowedInCurrentContext(m, action) == action \in ContextualMapping[m.currentContext]

\* InputManager.clearInputState
ClearInputState(m) == [m EXCEPT !.inputState = EmptyInputState, !.pressedKeys = {}]

\* InputManager.setContext
SetContextOp(m, context) ==
    IF m.currentContext # context
    THEN ClearInputState([m EXCEPT !.currentContext = context])
    ELSE m

\* setEnabled without the clearing of the state
SetEnabledKeepsState(m, enabled) ==
    IF m.isEnabled # enabled THEN [m EXCEPT !.isEnabled = enabled] ELSE m

\* InputManager.setEnabled
SetEnabledOp(m, enabled) ==
    IF m.isEnabled # enabled
    THEN LET m1 == [m EXCEPT !.isEnabled = enabled]
         IN IF ~enabled THEN ClearInputState(m1) ELSE m1
    ELSE m

\* InputManager.triggerAction
TriggerActionOp(m, action, active) ==
    IF ~m.isEnabled THEN m
    ELSE IF IsActionAllowedInCurrentContext(m, action)
         THEN [m EXCEPT !.inputState[action] = active]
         ELSE m

\* handleKeyDown without the check of the context
HandleKeyDownAnyContext(m, keyCode) ==
    IF ~m.isEnabled \/ keyCode \in m.pressedKeys THEN m
    ELSE [m EXCEPT !.pressedKeys = @ \cup {keyCode},
                   !.inputState = [a \in InputActions |-> IF a \in KeyToActionMap(keyCode) THEN TRUE ELSE @[a]]]

\* InputManager.handleKeyDown
HandleKeyDownOp(m, keyCode) ==
    IF ~m.isEnabled \/ keyCode \in m.pressedKeys THEN m
    ELSE [m EXCEPT !.pressedKeys = @ \cup {keyCode},
                   !.inputState = [a \in InputActions |->
                                     IF a \in KeyToActionMap(keyCode) /\ IsActionAllowedInCurrentContext(m, a)
                                     THEN TRUE ELSE @[a]]]

\* InputManager.handleKeyUp
HandleKeyUpOp(m, keyCode) ==
    IF ~m.isEnabled THEN m
    ELSE [m EXCEPT !.pressedKeys = @ \ {keyCode},
                   !.inputState = [a \in InputActions |->
                                     IF a \in KeyToActionMap(keyCode) /\ IsActionAllowedInCurrentContext(m, a)
                                     THEN FALSE ELSE @[a]]]

\* InputManager.handleFocusLost
HandleFocusLostOp(m) == ClearInputState(m)

\* Some action is active or some key is pressed
Engaged(m) == m.pressedKeys # {} \/ \E a \in InputActions : m.inputState[a]

\* The log after the call op took the manager from m to m2: cleared tells whether
\* the newest call that emptied the state found something in it
Logged(m, m2, op) ==
    [op |-> op,
     cleared |-> IF Engaged(m) /\ ~Engaged(m2) /\ op \in {"setContext", "setEnabled", "handleFocusLost"}
                 THEN TRUE
                 ELSE IF op \in {"setContext", "setEnabled", "handleFocusLost"} /\ m2 # m
                      THEN FALSE ELSE inputLog.cleared]

InputStore(m, op) ==
    /\ inputState' = m.inputState
    /\ pressedKeys' = m.pressedKeys
    /\ currentContext' = m.currentContext
    /\ isEnabled' = m.isEnabled
    /\ inputLog' = Logged(InputRec, m, op)
    /\ UNCHANGED <<kartVars, camVars, eventVars>>

SetContext == \E context \in InputContexts : InputStore(SetContextOp(InputRec, context), "setContext")

SetEnabled == \E enabled \in BOOLEAN : InputStore(SetEnabledOp(InputRec, enabled), "setEnabled")

TriggerAction ==
    \E action \in TriggeredActions, active \in BOOLEAN :
        InputStore(TriggerActionOp(InputRec, action, active), "triggerAction")

HandleKeyDown == \E keyCode \in Keys : InputStore(HandleKeyDownOp(InputRec, keyCode), "handleKeyDown")

HandleKeyUp == \E keyCode \in Keys : InputStore(HandleKeyUpOp(InputRec, keyCode), "handleKeyUp")

HandleFocusLost == InputStore(HandleFocusLostOp(InputRec), "handleFocusLost")

\* InputManager's constructor: the menu context, enabled, nothing active
InputInit ==
    /\ inputState = EmptyInputState
    /\ pressedKeys = {}
    /\ currentContext = "menu"
    /\ isEnabled = TRUE
    /\ inputLog = [op |-> "constructor", cleared |-> FALSE]

-----------------------------------------------------------------------------
Init == KartInit /\ CamInit /\ InputInit

NextRace == GameUpdate

NextKart == SetControls \/ KartUpdate \/ PhysicsStep \/ SetPosition \/ ResetKart \/ Dispose

NextSnapshot == HeldFrame \/ KartGetState \/ WriteSnapshot

NextTransition == AdvanceClock \/ TransitionTo \/ Update

NextShake == StartShake \/ StopShake \/ Update

NextCollision == SetTarget \/ ClearTarget \/ MoveTarget \/ AddOccluders \/ AddFaultyObject \/ Update

NextTracking == SetTarget \/ MoveTarget \/ SetMode \/ Update \/ ControllerUpdate \/ SetCameraMode

NextBounds == SetTarget \/ ClearTarget \/ MoveTarget \/ SetBounds \/ StartShake \/ Update

\* The game loop driving the kart frame by frame
SpecRace == Init /\ [][NextRace]_vars

\* The kart driven through its public API
SpecKart == Init /\ [][NextKart]_vars

\* Listeners of modeChanged registered, removed and notified by setMode
NextEvents == On \/ Off \/ SetMode

SpecEvents == Init /\ [][NextEvents]_vars

\* The InputManager under key events and calls of its API
NextInput == SetContext \/ SetEnabled \/ TriggerAction \/ HandleKeyDown \/ HandleKeyUp \/ HandleFocusLost

SpecInput == Init /\ [][NextInput]_vars

\* The kart driven frame by frame while a caller holds and writes to a getState() value
SpecSnapshot == Init /\ [][NextSnapshot]_vars

\* Configuration transitions of the camera against the clock
SpecTransition == Init /\ [][NextTransition]_vars

\* Camera shake
SpecShake == Init /\ [][NextShake]_vars

\* The camera following a target in a scene with occluders
SpecCollision == Init /\ [][NextCollision]_vars

\* The cameras following a target in every mode and follow type
SpecTracking == Init /\ [][NextTracking]_vars

\* The camera following a target inside bounds, with shake
SpecBounds == Init /\ [][NextBounds]_vars

-----------------------------------------------------------------------------
(* Claims about the kart *)

\* C1: after every frame (Kart.update followed by the physics step of the same
\* frame) the magnitude of the kart's horizontal velocity is at most MAX_SPEED;
\* stated with a slack of 1 m/s, far above any float tolerance and above the
\* rounding of the velocity grid.
C1_SpeedWithinMaxAfterTick ==
    CurrentSpeed(bodyVel).sq <= ((MAX_SPEED + 1) * VScale) * ((MAX_SPEED + 1) * VScale)

-----------------------------------------------------------------------------
(* Claims about the camera's transitions *)

\* the step is a CameraManager.update call
IsUpdateStep == hist'.updates # hist.updates

\* the step is a CameraManager.transitionTo call
IsTransitionToStep == hist'.started # hist.started

\* how many events of the type the step emitted
EmittedCount(events, type) == Cardinality({i \in DOMAIN events : events[i].type = type})

\* a transition is in flight and the clock is at or past its duration
TransitionDue ==
    /\ cam.isTransitioning
    /\ cam.transitionData.id # 0
    /\ now - cam.transitionData.startTime >= cam.transitionData.duration

\* C3: when an update observes that the elapsed time of the active transition
\* is at or past its duration, the config is committed to the transition's end
\* config, isTransitioning becomes false with progress 1, and
\* transitionCompleted fires exactly once for that transition (onComplete too,
\* if set), never again in a later update.
C3_CommitAtDuration ==
    [][ /\ (IsUpdateStep /\ TransitionDue) =>
              /\ cam'.config = cam.transitionData.toConfig
              /\ cam'.cameraFov = cam.transitionData.toConfig.fov
              /\ ~cam'.isTransitioning
              /\ cam'.transitionProgress = 1000
              /\ EmittedCount(emitted', "transitionCompleted") = 1
              /\ hist'.completed[cam.transitionData.id] = 1
              /\ hist'.onComplete[cam.transitionData.id]
                    = (IF cam.transitionData.onComplete THEN 1 ELSE 0)
        /\ \A id \in DOMAIN hist'.completed : hist'.completed[id] <= 1
      ]_vars

\* C4: transitionTo sets transitionProgress to 0 and isTransitioning to true;
\* across the following updates of that transition the progress never
\* decreases, stays within [0, 1] (thousandths: 0..1000), and is exactly 1 at
\* the first update at or after the duration.
C4_ProgressMonotoneInUnitRange ==
    [][ /\ IsTransitionToStep => (cam'.transitionProgress = 0 /\ cam'.isTransitioning)
        /\ (IsUpdateStep /\ cam.isTransitioning /\ cam.transitionData.id # 0) =>
              /\ cam'.transitionProgress >= cam.transitionProgress
              /\ cam'.transitionProgress >= 0
              /\ cam'.transitionProgress <= 1000
              /\ TransitionDue => cam'.transitionProgress = 1000
      ]_vars

\* the fields of a config that a transition in flight never interpolates
SameButFov(c, d) ==
    /\ c.mode = d.mode
    /\ c.followType = d.followType
    /\ c.smoothing = d.smoothing
    /\ c.offset = d.offset
    /\ c.enableCollisionDetection = d.enableCollisionDetection

\* C5: a transitionTo call during a transition in flight replaces it: the new
\* transition starts from the live configuration at the call and ends at that
\* configuration merged with the requested keys; only the newest transition
\* is ever in flight and only it can complete, so a replaced transition's
\* transitionCompleted never fires; a completion commits the newest
\* transition's end config whole; and until then the live config carries the
\* start config's keys, none of the end config's (fov alone is interpolated).
C5_OverlapReplaces ==
    [][ /\ IsTransitionToStep =>
              /\ cam'.transitionData.id = hist'.started
              /\ cam'.transitionData.fromConfig = cam.config
              /\ \E r \in TransitionRequests :
                    cam'.transitionData.toConfig
                       = MergeConfig(cam.config, r.partial, Len(nested) + 1, Len(nested'))
              /\ cam'.config = cam.config
              /\ EmittedCount(emitted', "transitionCompleted") = 0
              /\ \A id \in DOMAIN hist.completed : hist'.completed[id] = hist.completed[id]
        /\ \A id \in DOMAIN hist.completed :
              hist'.completed[id] # hist.completed[id] =>
                 /\ id = hist.started
                 /\ id = cam.transitionData.id
                 /\ cam'.config = cam.transitionData.toConfig
        /\ cam'.transitionData.id # 0 =>
              /\ cam'.transitionData.id = hist'.started
              /\ SameButFov(cam'.config, cam'.transitionData.fromConfig)
      ]_vars

\* C5 witness: the first transition (fov 75 to 60) was replaced half way by a
\* second one that carries no fov; the first never completed, the second did,
\* and the committed config holds the fov interpolated up to the second call
C5_Witness ==
    /\ hist.started = 2
    /\ hist.completed = <<0, 1>>
    /\ ~cam.isTransitioning
    /\ cam.config.fov > 60000
    /\ cam.config.fov < 75000
    /\ cam.config.smoothing # DefaultConfig.smoothing

\* C6: a transitionTo call with a negative duration is rejected: no transition
\* with a negative duration is ever in flight, and none is announced by
\* transitionStarted.
C6_NegativeDurationRejected ==
    (cam.isTransitioning /\ cam.transitionData.id # 0) => cam.transitionData.duration >= 0

-----------------------------------------------------------------------------
(* Claims about the camera's shake *)

\* C7: startShake(config) sets isActive, timeRemaining = config.duration and
\* currentIntensity = config.intensity and emits shakeStarted; once updates
\* whose delta times total at least the duration have been applied to the
\* shake, isActive is false, the offset is zero and shakeEnded was emitted.
C7_ShakeStartsAndExpires ==
    [][ /\ hist'.shakes # hist.shakes =>
              /\ cam'.shake.isActive
              /\ emitted' = << [type |-> "shakeStarted",
                                duration |-> cam'.shake.timeRemaining,
                                intensity |-> cam'.shake.currentIntensity] >>
              /\ \E sc \in ShakeConfigs :
                    /\ cam'.shake.timeRemaining = sc.duration
                    /\ cam'.shake.currentIntensity = sc.intensity
        /\ (hist'.shakes > 0 /\ hist'.shakeUpdated /\ hist'.shakeDue <= 0) =>
              /\ ~cam'.shake.isActive
              /\ cam'.shake.offset = ZeroVec3
              /\ hist'.shakeEnded >= 1
      ]_vars

\* C7 witness: a shake of positive duration took more than one update to
\* expire and has ended
C7_Witness ==
    /\ hist.shakes > 0
    /\ hist.shakeUpdated
    /\ hist.shakeDue <= 0
    /\ hist.updates >= 2
    /\ hist.shakeEnded = 1
    /\ ~cam.shake.isActive
    /\ cam.cameraPosition = cam.position

\* the shake state stopShake leaves
ShakeAtRest ==
    [isActive |-> FALSE, timeRemaining |-> 0, currentIntensity |-> 0, offset |-> ZeroVec3]

\* C8: stopShake() on an active shake leaves isActive false, timeRemaining,
\* intensity and offset zero, and emits shakeEnded; an update made while no
\* shake is active (the very next one included) applies the tracked position
\* with no offset; stopShake() with no shake active changes nothing and emits
\* nothing.
C8_StopShakeImmediate ==
    [][ /\ (StopShake /\ cam.shake.isActive) =>
              /\ cam'.shake = ShakeAtRest
              /\ emitted' = << [type |-> "shakeEnded"] >>
        /\ (StopShake /\ ~cam.shake.isActive) =>
              /\ cam' = cam
              /\ nested' = nested
              /\ emitted' = << >>
        /\ (IsUpdateStep /\ ~cam.shake.isActive) =>
              /\ cam'.cameraPosition = cam'.position
              /\ cam'.shake = cam.shake
      ]_vars

\* C8 witness: a shake that had displaced the camera was stopped by stopShake
\* before it was due (shakeDue > 0), and an update since has put the camera
\* back on the tracked position (every offset drawn for an active shake is
\* non-zero, so the camera stays displaced until that update)
C8_Witness ==
    /\ hist.shakes > 0
    /\ hist.shakeUpdated
    /\ hist.shakeDue > 0
    /\ hist.shakeEnded = 1
    /\ cam.shake = ShakeAtRest
    /\ cam.cameraPosition = cam.position

-----------------------------------------------------------------------------
(* Claims about the camera's position *)

\* p lies within [b.min, b.max] on each axis
WithinBounds(p, b) ==
    /\ b.min.x <= p.x /\ p.x <= b.max.x
    /\ b.min.y <= p.y /\ p.y <= b.max.y
    /\ b.min.z <= p.z /\ p.z <= b.max.z

\* min <= max on each axis
WellFormed(b) == b.min.x <= b.max.x /\ b.min.y <= b.max.y /\ b.min.z <= b.max.z

\* C9 as stated: when bounds are set, after every update the position applied
\* to the camera lies within [bounds.min, bounds.max] on each axis.
C9_AppliedPositionWithinBounds ==
    [][ (IsUpdateStep /\ cam'.bounds.set) => WithinBounds(cam'.cameraPosition, cam'.bounds) ]_vars

\* C9: when bounds with min <= max on each axis are set, after every update
\* the tracked position lies within the bounds, and the position applied to
\* the camera lies within them whenever no shake is active (the offset of an
\* active shake is added after the clamp).
C9_TrackedPositionWithinBounds ==
    [][ (IsUpdateStep /\ cam'.bounds.set /\ WellFormed(cam'.bounds)) =>
              /\ WithinBounds(cam'.position, cam'.bounds)
              /\ ~cam'.shake.isActive => WithinBounds(cam'.cameraPosition, cam'.bounds)
      ]_vars

\* C9 witness: following a target far outside well-formed bounds, an update
\* has left the camera clamped onto the upper faces of the box
C9_Witness ==
    /\ hist.updates >= 1
    /\ cam.hasTarget
    /\ cam.bounds.set
    /\ WellFormed(cam.bounds)
    /\ ~WithinBounds(target.position, cam.bounds)
    /\ cam.position.x = cam.bounds.max.x
    /\ cam.position.y = cam.bounds.max.y
    /\ cam.cameraPosition = cam.position

\* C10: with collision detection enabled and an occluder hit by the
\* target-to-camera ray closer than the camera, after the update the camera's
\* distance to the target is at most the target's distance to the hit point.
C10_NotBehindOccluder ==
    [][ (IsUpdateStep /\ EmittedCount(emitted', "collisionDetected") = 1) =>
           \A i \in DOMAIN emitted' :
              emitted'[i].type = "collisionDetected" =>
                 LenSq(VecSub(cam'.cameraPosition, target.position))
                    <= LenSq(VecSub(emitted'[i].position, target.position))
      ]_vars

-----------------------------------------------------------------------------
(* Claims about the camera without a target *)

\* what an update does to an active shake: it counts down by the delta time and
\* either stays active with time left or has ended with shakeEnded emitted
ShakeCountedDown ==
    cam.shake.isActive =>
       /\ hist'.shakeUpdated
       /\ \E d \in DeltaTimes : hist'.shakeDue = cam.shake.timeRemaining - d
       /\ cam'.shake.isActive =>
             (cam'.shake.timeRemaining = hist'.shakeDue /\ hist'.shakeDue > 0)
       /\ ~cam'.shake.isActive =>
             (hist'.shakeDue <= 0 /\ EmittedCount(emitted', "shakeEnded") = 1)

-----------------------------------------------------------------------------
(* Claims about the kart's ticks *)

\* the step is a Kart.update call made through the kart's API
IsKartUpdateStep == kartTicks' # kartTicks

C13_ResetZeroesState ==
    [][ ResetKart =>
           /\ bodyVel' = ZeroVec2
           /\ kstate'.speed = 0
           /\ ~kstate'.isDrifting
           /\ kstate'.driftLevel = 0
      ]_vars

\* C14: control values outside their ranges are clamped, so that in every
\* reachable state the steering angle, live and as reported by the state
\* snapshot, is at most the configured maximum steering angle in magnitude.
C14_SteeringAngleWithinMax ==
    /\ Abs(steerValue) <= maxSteerAngle
    /\ Abs(kstate.steering) <= maxSteerAngle

\* C15: a kart tick with dt <= 0 is a no-op: it applies no force and leaves
\* the velocity, the steering and the drift state unchanged.
C15_NonPositiveDtNoOp ==
    [][ \A deltaTime \in {d \in KartDeltaTimes : d <= 0} :
           (IsKartUpdateStep /\ Store(KartUpdateOp(KartRec, deltaTime))) =>
              UNCHANGED <<bodyVel, bodyForce, steerValue, kstate>>
      ]_vars

\* The kart has been disposed: dispose has cleared its group
Disposed == group = 0

\* C16: after the kart has been disposed a tick is a no-op: update applies no
\* force to the body and changes neither the velocity, the steering angle nor
\* the state snapshot
C16_DisposedTickNoOp ==
    [][(Disposed /\ IsKartUpdateStep) =>
          UNCHANGED <<bodyVel, bodyForce, steerValue, kstate>>]_vars

-----------------------------------------------------------------------------
(* Claims about the run that holds the accelerator from rest *)

\* The kart is in a state of the run from rest with accelerate = 1, brake = 0, steering = 0
OnHeldRun == KartRec \in HeldStates

\* The body's horizontal speed, in velocity units rounded down
BodySpeed == CurrentSpeed(bodyVel).units

\* On the run that holds the accelerator from rest, no frame lowers the speed of
\* the body or the speed of the state snapshot
HeldSpeedNonDecreasing ==
    [][(OnHeldRun /\ KartRec' = HoldTick(KartRec)) =>
          /\ CurrentSpeed(bodyVel').units >= BodySpeed
          /\ kstate'.speed >= kstate.speed]_vars

\* C17: from rest with accelerate = 1, brake = 0, steering = 0 held on every tick,
\* the speed is non-decreasing until it reaches maxSpeed and then stays there:
\* the run comes to maxSpeed, so a state of the run that a further held tick
\* leaves as it is has the speed maxSpeed
C17_HeldRunSettlesAtMaxSpeed ==
    (OnHeldRun /\ HoldTick(KartRec) = KartRec) => BodySpeed = MAX_SPEED * VScale

-----------------------------------------------------------------------------
(* Claims about the tracked object *)

-----------------------------------------------------------------------------
(* Claims about the interpolation of a transition *)

\* C19: during an active transition of positive duration, every update leaves
\* the transition's recorded start config as it was, and leaves fov,
\* smoothing.position, smoothing.lookAt and offset.position at the linear
\* interpolation, at the eased progress, between the start config's value and
\* the merged target's value
C19_InterpolatesFromStart ==
    [][(IsUpdateStep /\ cam.isTransitioning /\ cam'.isTransitioning
          /\ cam.transitionData.duration > 0) =>
          LET from == cam.transitionData.fromConfig
              to == cam.transitionData.toConfig
              t == cam'.transitionProgress
              live == cam'.config
          IN /\ cam'.transitionData.fromConfig = from
             /\ nested'[from.smoothing] = nested[from.smoothing]
             /\ nested'[from.offset] = nested[from.offset]
             /\ live.fov = Lerp(from.fov, to.fov, t)
             /\ nested'[live.smoothing].position =
                   Lerp(nested[from.smoothing].position, nested[to.smoothing].position, t)
             /\ nested'[live.smoothing].lookAt =
                   Lerp(nested[from.smoothing].lookAt, nested[to.smoothing].lookAt, t)
             /\ nested'[live.offset].position =
                   VecLerp(nested[from.offset].position, nested[to.offset].position, t)
       ]_vars

-----------------------------------------------------------------------------
(* Claims about the decay of a shake *)

-----------------------------------------------------------------------------
(* Claims about the steering forces *)

\* The kart steers beyond the dead zone of updatePhysics
Steering == Abs(SteerValue(controls)) > STEER_DEADZONE

\* C21 as stated: for a fixed non-zero steer input, neither the lateral
\* steering force nor the yaw torque a tick applies is larger in magnitude
\* than what the same input gets at any lower speed.
C21_SteeringScaledDown ==
    [][(IsKartUpdateStep /\ Steering) =>
          LET sv == SteerValue(controls)
              su == CurrentSpeed(bodyVel).units
          IN \A lower \in 0..su :
                /\ Abs(SteerForceMagnitude(sv, lower)) >= Abs(SteerForceMagnitude(sv, su))
                /\ Abs(SteerTorqueMagnitude(sv, lower)) >= Abs(SteerTorqueMagnitude(sv, su))
       ]_vars

\* C21: for a fixed non-zero steer input, the speed-dependent gain and the
\* magnitude of the yaw torque a tick applies do not increase with the speed;
\* the lateral force is the gain times the speed: it is zero at rest and
\* non-zero at any speed above, and per unit of speed it does not increase
\* (to within one newton per velocity unit, the rounding of the force).
C21_SteeringGainScaledDown ==
    [][(IsKartUpdateStep /\ Steering) =>
          LET sv == SteerValue(controls)
              su == CurrentSpeed(bodyVel).units
          IN /\ bodyTorque' - bodyTorque = SteerTorqueMagnitude(sv, su)
             /\ SteerForceMagnitude(sv, 0) = 0
             /\ su > 0 => SteerForceMagnitude(sv, su) # 0
             /\ \A lower \in 0..su :
                   /\ SpeedFactor(lower) >= SpeedFactor(su)
                   /\ Abs(SteerTorqueMagnitude(sv, lower)) >= Abs(SteerTorqueMagnitude(sv, su))
                   /\ Abs(SteerForceMagnitude(sv, lower)) * su + su * lower
                         >= Abs(SteerForceMagnitude(sv, su)) * lower
       ]_vars

\* C21 witness: a tick has applied a steering torque to a moving kart whose
\* speed had already lowered the gain
C21_Witness ==
    /\ kartTicks >= 2
    /\ bodyTorque # 0
    /\ steerValue # 0
    /\ kstate.speed > 0
    /\ SpeedFactor(kstate.speed) < 1000

-----------------------------------------------------------------------------
(* Claims about a raycast that finds nothing or fails *)

\* C22: when the collision raycast of an update on a camera with a target
\* returns no hit that is not the target, or throws, the update does not
\* throw, emits no collisionDetected, and leaves the camera position as the
\* smoothing computed it.
C22_RaycastFailureIsNoCollision ==
    [][(IsUpdateStep /\ cam.hasTarget /\ scene \in {"open", "faulty"}) =>
          /\ ~hist'.threw
          /\ EmittedCount(emitted', "collisionDetected") = 0
          /\ cam'.position = UpdateCameraPosition(Work, target).cam.position]_vars

\* the part about a raycast that returns without a hit
C22_NoHitIsNoCollision ==
    [][(IsUpdateStep /\ cam.hasTarget /\ scene = "open") =>
          /\ ~hist'.threw
          /\ EmittedCount(emitted', "collisionDetected") = 0
          /\ cam'.position = UpdateCameraPosition(Work, target).cam.position
          /\ cam'.cameraPosition = cam'.position]_vars

-----------------------------------------------------------------------------
(* Claims about the state snapshot *)

\* a state value with its nested objects read through the object table h
View(st, h) == [st EXCEPT !.velocity = h[@], !.angularVelocity = h[@]]

\* C23: the value getState returned, nested objects included, is not changed by
\* a later tick, and an assignment to it or to its nested objects changes
\* nothing of what the kart holds and so of what getState returns next.
C23_SnapshotImmutable ==
    [][/\ (snapshot.taken /\ IsKartUpdateStep) =>
             View(snapshot'.state, objects') = View(snapshot.state, objects)
       /\ WriteSnapshot => View(kstate', objects') = View(kstate, objects)]_vars

\* the part about later ticks
C23_TicksLeaveSnapshot ==
    [][(snapshot.taken /\ IsKartUpdateStep) =>
          View(snapshot'.state, objects') = View(snapshot.state, objects)]_vars

-----------------------------------------------------------------------------
(* Claims about the input manager *)

\* every active action is one the current context lists
ActiveActionsAllowed ==
    \A a \in InputActions : inputState[a] => a \in ContextualMapping[currentContext]

\* C24: in every reachable state each active action is allowed in the current
\* context, whatever triggerAction and the key events were given, and a change
\* to a different context leaves no action active.
C24_ActiveActionsAllowed ==
    /\ []ActiveActionsAllowed
    /\ [][currentContext' # currentContext => inputState' = EmptyInputState]_vars

\* In the menu the key of accelerate and menuUp went down and only menuUp became
\* active, after an earlier change of context had cleared the state
C24_Witness ==
    /\ currentContext = "menu"
    /\ "KeyW" \in pressedKeys
    /\ inputState["menuUp"]
    /\ ~inputState["accelerate"]
    /\ inputLog.cleared
    /\ inputLog.op = "handleKeyDown"

\* C25: while input is disabled no action is active and no key is recorded as
\* pressed, and triggerAction and the key events change nothing of the state.
C25_DisabledInputInert ==
    /\ [](~isEnabled => inputState = EmptyInputState /\ pressedKeys = {})
    /\ [][(~isEnabled /\ (TriggerAction \/ HandleKeyDown \/ HandleKeyUp)) =>
             UNCHANGED <<inputState, pressedKeys, currentContext, isEnabled>>]_vars

\* setEnabled(false) cleared an engaged state and a key went down afterwards
C25_Witness ==
    /\ ~isEnabled
    /\ inputLog.cleared
    /\ inputLog.op = "handleKeyDown"

\* C30: an action stays active while one of its keys is held: a key release
\* leaves active every action that was active and still has a pressed key.
C30_HeldKeyKeepsActionActive ==
    [][HandleKeyUp =>
          \A a \in InputActions :
             (inputState[a] /\ KeyMapping[a] \cap pressedKeys' # {}) => inputState'[a]]_vars

-----------------------------------------------------------------------------
(* Claims about the camera's mode *)

\* C26: in every reachable state the mode of the camera's state is the mode of
\* its config.
C26_ModeInSync == cam.mode = cam.config.mode

-----------------------------------------------------------------------------
(* Claims about a transition's progress as a number *)

\* C27: an update of a transition started with a duration of zero or more
\* leaves a progress and an interpolated fov that are numbers, never NaN (the
\* part of the claim that every such transition completes rests on this one:
\* an update whose progress is NaN does not complete the transition).
C27_ProgressNeverNaN ==
    [][(IsUpdateStep /\ cam.isTransitioning /\ cam.transitionData.duration >= 0
                     /\ cam.config.fov # NaN) =>
          /\ cam'.transitionProgress # NaN
          /\ cam'.config.fov # NaN
          /\ cam'.cameraFov # NaN]_vars

\* the same for transitions of positive duration
C27_PositiveDurationNeverNaN ==
    [][(IsUpdateStep /\ cam.isTransitioning /\ cam.transitionData.duration > 0
                     /\ cam.config.fov # NaN) =>
          /\ cam'.transitionProgress # NaN
          /\ cam'.config.fov # NaN
          /\ cam'.cameraFov # NaN]_vars

-----------------------------------------------------------------------------
(* Claims about the order of the shake events *)

\* the step is a CameraManager.startShake call
IsStartShakeStep == hist'.shakes # hist.shakes

\* C28: shakeStarted and shakeEnded alternate: a shake emits shakeEnded at most
\* once, and when startShake is called after an earlier shake, that shake has
\* emitted its shakeEnded, at the latest in the call that replaces it.
C28_ShakeEventsAlternate ==
    /\ [](hist.shakeEnded <= 1)
    /\ [][(IsStartShakeStep /\ hist.shakes > 0) =>
             \/ hist.shakeEnded = 1
             \/ EmittedCount(emitted', "shakeEnded") = 1]_vars

\* the part about the end of a shake: shakeEnded comes at most once per shake
\* and only for a shake that was started and is no longer active
C28_OneEndPerShake ==
    /\ hist.shakeEnded <= 1
    /\ (hist.shakeEnded = 1 => hist.shakes > 0 /\ ~cam.shake.isActive)

-----------------------------------------------------------------------------
(* Claims about the delivery of events *)

\* how many times the callback id was called
Calls(calls, id) == Cardinality({i \in DOMAIN calls : calls[i] = id})

\* C29: the event a setMode call emits is delivered exactly once to every
\* listener registered when the call starts, whatever off() calls the
\* listeners make during the delivery.
C29_DeliveredOnceToEach ==
    [][SetMode => \A i \in DOMAIN eventListeners :
                     Calls(delivered', eventListeners[i].id) = 1]_vars

\* the same when no listener called unsubscribes a listener registered at the start
C29_DeliveredOnceWithoutOff ==
    [][(SetMode /\ \A i \in DOMAIN eventListeners :
                      IndexOf(eventListeners, eventListeners[i].removes) = 0) =>
          /\ eventListeners' = eventListeners
          /\ \A i \in DOMAIN eventListeners : Calls(delivered', eventListeners[i].id) = 1]_vars
====
